---- MODULE Spec2Model ----
(***************************************************************************)
(* Order pricing and fulfilment pipeline of the e-commerce order system:   *)
(* OrderService (create_order, cancel_order, update_order_status,          *)
(* apply_additional_discount) over the in-memory repositories, with the    *)
(* PricingService discount chain, ShippingService, PaymentService,         *)
(* InventoryService, CustomerService and PromotionService it calls.        *)
(*                                                                         *)
(* Money is a Python float in the source.  It is modelled as a fixed-point *)
(* integer counting 1/Scale dollars; a product with a rate is truncated to *)
(* that unit.  Rates are written in basis points (1/10000).                *)
(***************************************************************************)
EXTENDS Integers, Sequences, FiniteSets, TLC

VARIABLES
    customers,        \* InMemoryCustomerRepository._storage
    products,         \* InMemoryProductRepository._storage
    promotions,       \* InMemoryPromotionRepository._storage
    orders,           \* InMemoryOrderRepository._storage
    next_id,          \* InMemoryOrderRepository.__next_id
    payment_history,  \* PaymentService.__payment_history
    inventory_logs,   \* InventoryService.__inventory_logs
    notification_log, \* NotificationService.__notification_log
    shipments,        \* InMemoryShipmentRepository.__shipments
    next_shipment_id, \* InMemoryShipmentRepository.__next_id
    supplier_emails,  \* the low stock alerts SupplierService has printed
    ret,              \* the last call: operation and outcome
    at_creation,      \* history: per order, the product quantities before it was
                      \* created and the arguments it was created with
    calc,             \* a PricingService.apply_all_discounts call: arguments and result
    quote,            \* a ShippingService.calculate_shipping_cost call: arguments and result
    in_flight         \* create_order calls that run side by side: per caller, the
                      \* step it has reached and its local variables

vars == <<customers, products, promotions, orders, next_id, payment_history,
          inventory_logs, notification_log, shipments, next_shipment_id,
          supplier_emails, ret, at_creation, calc, quote, in_flight>>

-----------------------------------------------------------------------------
(* Bounds of the model *)

MaxOrders == 1      \* create_order is not called once next_id exceeds this
MaxQty == 2         \* the larger of the two quantities a line item is ordered in
MaxLogs == 4        \* cancel_order is not called once the inventory log is this long
MaxLedger == 2       \* PaymentService is not called on its own once the ledger is this long
MaxShipments == 1    \* ship_order is not called on its own once this many shipments are stored
MaxStock == 4        \* restock_product is not called to raise a quantity above this
MaxIds == 3          \* create_order is not called in a row once next_id exceeds this
MinDiscountable == 50  \* a PENDING order is discounted only while its total is at least this many dollars

(* Fixed-point unit of a float amount *)
Scale == 1000000

Dollars(n) == n * Scale

\* x * bp / 10000 truncated, split so that no intermediate product overflows
MulRate(x, bp) == (x \div 10000) * bp + ((x % 10000) * bp) \div 10000

Min(a, b) == IF a <= b THEN a ELSE b

\* datetime.datetime.now(), a fixed instant
Now == 10

-----------------------------------------------------------------------------
(* Enumerations *)

OrderStatus == {"pending", "shipped", "delivered", "cancelled", "in_transit"}
MembershipTier == {"standard", "bronze", "silver", "gold", "suspended"}
ShippingMethod == {"standard", "express", "overnight"}
PaymentMethod == {"credit_card", "paypal"}

None == "None"

-----------------------------------------------------------------------------
(* The data the repositories are loaded with *)

\* address is the set of USState codes that occur as substrings of the text
InitCustomers ==
    [c \in 1..4 |->
        CASE c = 1 -> [membership_tier |-> "gold", address |-> {"CA"},
                       loyalty_points |-> 0, order_history |-> <<>>]
          [] c = 2 -> [membership_tier |-> "silver", address |-> {"NY", "TX"},
                       loyalty_points |-> 150, order_history |-> <<>>]
          [] c = 3 -> [membership_tier |-> "standard", address |-> {},
                       loyalty_points |-> 0, order_history |-> <<>>]
          [] c = 4 -> [membership_tier |-> "suspended", address |-> {"TX"},
                       loyalty_points |-> 0, order_history |-> <<>>]]

InitProducts ==
    [p \in 1..2 |->
        CASE p = 1 -> [price |-> Dollars(100), quantity_available |-> 3,
                       category |-> "Electronics", weight |-> 1, supplier_id |-> 1]
          [] p = 2 -> [price |-> Dollars(55), quantity_available |-> 1,
                       category |-> "Accessories", weight |-> 2, supplier_id |-> 2]]

InitPromotions ==
    [code \in {"SAVE10", "OLD20"} |->
        CASE code = "SAVE10" -> [discount_percent |-> 10, min_purchase |-> Dollars(0),
                                 valid_until |-> Now + 5, category |-> "all",
                                 used_count |-> 0]
          [] code = "OLD20" -> [discount_percent |-> 20, min_purchase |-> Dollars(0),
                                valid_until |-> Now - 5, category |-> "all",
                                used_count |-> 0]]

-----------------------------------------------------------------------------
(* Arguments of the calls *)

CustomerIds == 1..5          \* 5 is not in the repository
ProductIds == 1..3           \* 3 is not in the repository
PromoCodes == {None, "SAVE10"}
\* OLD20 is past its valid_until, NOPE is not in the repository
StaleCodes == {"OLD20", "NOPE"}
ShippingChoices == ShippingMethod

\* the unit price the caller quotes for a product
QuotedPrice(p) == IF p \in DOMAIN InitProducts THEN InitProducts[p].price ELSE Dollars(10)

ItemOf(p, q) == [product_id |-> p, quantity |-> q, unit_price |-> QuotedPrice(p)]

\* the line-item lists create_order is called with: none, one or two items, of
\* one product twice or of two products, with a missing or a short product
\* first or after an item that passes
ItemLists ==
    {<<>>,
     <<ItemOf(1, 1)>>, <<ItemOf(1, MaxQty)>>, <<ItemOf(2, 1)>>,
     <<ItemOf(2, MaxQty)>>, <<ItemOf(3, 1)>>,
     <<ItemOf(1, MaxQty), ItemOf(1, MaxQty)>>, <<ItemOf(1, 1), ItemOf(1, MaxQty)>>,
     <<ItemOf(1, 1), ItemOf(2, 1)>>, <<ItemOf(2, 1), ItemOf(1, MaxQty)>>,
     <<ItemOf(1, 1), ItemOf(3, 1)>>, <<ItemOf(1, 1), ItemOf(2, MaxQty)>>}

PaidInFull ==
    [type |-> "credit_card", valid |-> TRUE, card_number |-> 16, email |-> FALSE,
     amount |-> Dollars(2000)]

PaymentInfos ==
    {PaidInFull,
     [type |-> "credit_card", valid |-> FALSE, card_number |-> 16, email |-> FALSE,
      amount |-> Dollars(2000)],
     [type |-> "credit_card", valid |-> TRUE, card_number |-> 16, email |-> FALSE,
      amount |-> Dollars(1)]}

-----------------------------------------------------------------------------
(* PricingService and the discount strategies *)

NoPromotion == [present |-> FALSE]

RECURSIVE calculate_subtotal(_, _, _)
\* the sum over order_items[i..] of quantity * unit_price and of weight * quantity
calculate_subtotal(order_items, prods, i) ==
    IF i > Len(order_items) THEN [subtotal |-> 0, total_weight |-> 0]
    ELSE LET item == order_items[i]
             rest == calculate_subtotal(order_items, prods, i + 1)
         IN IF item.product_id \in DOMAIN prods
            THEN [subtotal |-> item.quantity * item.unit_price + rest.subtotal,
                  total_weight |-> prods[item.product_id].weight * item.quantity
                                   + rest.total_weight]
            ELSE rest

Membership_calculate_discount(tier, subtotal) ==
    LET discount_rate == CASE tier = "gold" -> 1500
                           [] tier = "silver" -> 700
                           [] tier = "bronze" -> 300
                           [] OTHER -> 0
    IN MulRate(subtotal, discount_rate)

Promotional_calculate_discount(promotion, original_subtotal, current_subtotal, order_items, prods) ==
    IF ~promotion.present THEN 0
    ELSE IF Now > promotion.valid_until THEN 0
    ELSE IF original_subtotal < promotion.min_purchase THEN 0
    ELSE LET applicable ==
                 \E i \in 1..Len(order_items) :
                     /\ order_items[i].product_id \in DOMAIN prods
                     /\ \/ promotion.category = "all"
                        \/ prods[order_items[i].product_id].category = promotion.category
         IN IF applicable
            THEN current_subtotal
                   - MulRate(current_subtotal, 10000 - promotion.discount_percent * 100)
            ELSE 0

Bulk_calculate_discount(total_items, current_subtotal) ==
    LET rate == IF total_items >= 10 THEN 500
                ELSE IF total_items >= 5 THEN 200
                ELSE 0
    IN current_subtotal - MulRate(current_subtotal, 10000 - rate)

\* Faulty variant: the discount is what the points are worth, with no limit
\* at a tenth of the subtotal.
Loyalty_calculate_discount_uncapped(loyalty_points, current_subtotal) ==
    IF loyalty_points < 100 THEN 0
    ELSE loyalty_points * (Scale \div 100)

Loyalty_calculate_discount(loyalty_points, current_subtotal) ==
    IF loyalty_points < 100 THEN 0
    ELSE LET max_discount == MulRate(current_subtotal, 1000)
             points_discount == loyalty_points * (Scale \div 100)
         IN Min(max_discount, points_discount)

\* Faulty variant: every cent of discount is counted as ten points.
calculate_points_used_tenfold(discount_amount) == discount_amount \div (Scale \div 1000)

\* int(discount_amount * 100)
calculate_points_used(discount_amount) == discount_amount \div (Scale \div 100)

RECURSIVE TotalItems(_, _)
TotalItems(order_items, i) ==
    IF i > Len(order_items) THEN 0
    ELSE order_items[i].quantity + TotalItems(order_items, i + 1)

\* Faulty variant: every rate is taken on the original subtotal and the
\* discounts are added up.
apply_all_discounts_on_original(customer, order_items, prods, promotion) ==
    LET st == calculate_subtotal(order_items, prods, 1)
        subtotal == st.subtotal
        membership_discount ==
            Membership_calculate_discount(customer.membership_tier, subtotal)
        promo_discount ==
            Promotional_calculate_discount(promotion, subtotal, subtotal,
                                           order_items, prods)
        bulk_discount == Bulk_calculate_discount(TotalItems(order_items, 1), subtotal)
        loyalty_discount ==
            Loyalty_calculate_discount(customer.loyalty_points, subtotal)
    IN [original_subtotal |-> subtotal,
        loyalty_points_used |-> calculate_points_used(loyalty_discount),
        subtotal_after_loyalty |-> subtotal - membership_discount - promo_discount
                                     - bulk_discount - loyalty_discount,
        total_weight |-> st.total_weight]

\* the amounts apply_all_discounts computes on its way, by the names it gives them
discount_chain(customer, order_items, prods, promotion) ==
    LET st == calculate_subtotal(order_items, prods, 1)
        subtotal == st.subtotal
        membership_discount ==
            Membership_calculate_discount(customer.membership_tier, subtotal)
        subtotal_after_membership == subtotal - membership_discount
        promo_discount ==
            Promotional_calculate_discount(promotion, subtotal,
                                           subtotal_after_membership, order_items, prods)
        subtotal_after_promo == subtotal_after_membership - promo_discount
        total_items == TotalItems(order_items, 1)
        bulk_discount == Bulk_calculate_discount(total_items, subtotal_after_promo)
        subtotal_after_bulk == subtotal_after_promo - bulk_discount
        loyalty_discount ==
            Loyalty_calculate_discount(customer.loyalty_points, subtotal_after_bulk)
        final_price == subtotal_after_bulk - loyalty_discount
        points_used == calculate_points_used(loyalty_discount)
    IN [subtotal |-> subtotal, total_weight |-> st.total_weight,
        membership_discount |-> membership_discount,
        subtotal_after_membership |-> subtotal_after_membership,
        promo_discount |-> promo_discount,
        subtotal_after_promo |-> subtotal_after_promo,
        bulk_discount |-> bulk_discount,
        subtotal_after_bulk |-> subtotal_after_bulk,
        loyalty_discount |-> loyalty_discount,
        final_price |-> final_price, points_used |-> points_used]

apply_all_discounts(customer, order_items, prods, promotion) ==
    LET chain == discount_chain(customer, order_items, prods, promotion)
    IN [original_subtotal |-> chain.subtotal,
        loyalty_points_used |-> chain.points_used,
        subtotal_after_loyalty |-> chain.final_price,
        total_weight |-> chain.total_weight]

\* the breakdown before anything is priced
NoPricing == [original_subtotal |-> 0, loyalty_points_used |-> 0,
              subtotal_after_loyalty |-> 0, total_weight |-> 0]

calculate_additional_discount(current_price, discount_percent) ==
    current_price - MulRate(current_price, discount_percent * 100)

-----------------------------------------------------------------------------
(* ShippingService and the tax of OrderService *)

\* Faulty variant: STANDARD shipping is free only above 50, not at 50.
calculate_shipping_cost_above_50(shipping_method, total_weight, subtotal, customer_tier) ==
    CASE shipping_method = "express" ->
            LET shipping_cost == Dollars(25) + Dollars(total_weight) \div 2
            IN IF customer_tier = "gold" THEN shipping_cost \div 2 ELSE shipping_cost
      [] shipping_method = "standard" ->
            IF subtotal <= Dollars(50) THEN Dollars(5) + Dollars(total_weight) \div 5
            ELSE 0
      [] shipping_method = "overnight" -> Dollars(50) + Dollars(total_weight)
      [] OTHER -> 0

calculate_shipping_cost(shipping_method, total_weight, subtotal, customer_tier) ==
    CASE shipping_method = "express" ->
            LET shipping_cost == Dollars(25) + Dollars(total_weight) \div 2
            IN IF customer_tier = "gold" THEN shipping_cost \div 2 ELSE shipping_cost
      [] shipping_method = "standard" ->
            IF subtotal < Dollars(50) THEN Dollars(5) + Dollars(total_weight) \div 5
            ELSE 0
      [] shipping_method = "overnight" -> Dollars(50) + Dollars(total_weight)
      [] OTHER -> 0

calculate_tax(subtotal, customer_address) ==
    LET tax_rate == IF "CA" \in customer_address THEN 725
                    ELSE IF "NY" \in customer_address THEN 400
                    ELSE IF "TX" \in customer_address THEN 625
                    ELSE 800
    IN MulRate(subtotal, tax_rate)

-----------------------------------------------------------------------------
(* PaymentService *)

validate_payment(payment_method, payment_info) ==
    IF ~payment_info.valid THEN FALSE
    ELSE IF payment_method = "credit_card" THEN payment_info.card_number >= 16
    ELSE IF payment_method = "paypal" THEN payment_info.email
    ELSE TRUE

\* payment_info.get("amount", 0)
provided_amount(payment_info) ==
    IF "amount" \in DOMAIN payment_info THEN payment_info.amount ELSE 0

\* Faulty variant: the amount provided is not compared with the amount due.
process_payment_unfunded(history, order_id, amount, payment_method, payment_info) ==
    IF ~validate_payment(payment_method, payment_info)
    THEN [success |-> FALSE, raised |-> FALSE, history |-> history]
    ELSE IF amount = 0
    THEN [success |-> FALSE, raised |-> TRUE, history |-> history]
    ELSE [success |-> TRUE, raised |-> FALSE,
          history |-> Append(history,
                             [order_id |-> order_id, amount |-> amount,
                              is_refund |-> FALSE, payment_method |-> payment_method,
                              status |-> "completed"])]

\* the (success, ledger) pair a call leaves; "raised" when PaymentTransaction
\* rejects a zero amount
process_payment(history, order_id, amount, payment_method, payment_info) ==
    IF ~validate_payment(payment_method, payment_info)
    THEN [success |-> FALSE, raised |-> FALSE, history |-> history]
    ELSE IF provided_amount(payment_info) < amount
    THEN [success |-> FALSE, raised |-> FALSE, history |-> history]
    ELSE IF amount = 0
    THEN [success |-> FALSE, raised |-> TRUE, history |-> history]
    ELSE [success |-> TRUE, raised |-> FALSE,
          history |-> Append(history,
                             [order_id |-> order_id, amount |-> amount,
                              is_refund |-> FALSE, payment_method |-> payment_method,
                              status |-> "completed"])]

\* the first COMPLETED payment of the order in the ledger, 0 when there is none
original_payment(history, order_id) ==
    LET found == {i \in 1..Len(history) :
                     /\ history[i].order_id = order_id
                     /\ ~history[i].is_refund
                     /\ history[i].status = "completed"}
    IN IF found = {} THEN 0 ELSE CHOOSE i \in found : \A j \in found : i <= j

\* Faulty variant: the original transaction is marked as refunded.
process_refund_marking_original(history, order_id, amount) ==
    LET i == original_payment(history, order_id)
    IN IF i = 0 THEN [success |-> FALSE, raised |-> FALSE, history |-> history]
       ELSE IF amount = 0 THEN [success |-> FALSE, raised |-> TRUE, history |-> history]
       ELSE [success |-> TRUE, raised |-> FALSE,
             history |-> Append([history EXCEPT ![i].status = "refunded"],
                                [order_id |-> order_id, amount |-> amount,
                                 is_refund |-> TRUE,
                                 payment_method |-> history[i].payment_method,
                                 status |-> "refunded"])]

\* "raised" when PaymentTransaction rejects a zero amount
process_refund(history, order_id, amount) ==
    LET i == original_payment(history, order_id)
    IN IF i = 0 THEN [success |-> FALSE, raised |-> FALSE, history |-> history]
       ELSE IF amount = 0 THEN [success |-> FALSE, raised |-> TRUE, history |-> history]
       ELSE [success |-> TRUE, raised |-> FALSE,
             history |-> Append(history,
                                [order_id |-> order_id, amount |-> amount,
                                 is_refund |-> TRUE,
                                 payment_method |-> history[i].payment_method,
                                 status |-> "refunded"])]

-----------------------------------------------------------------------------
(* PromotionService *)

\* Faulty variant: the expiry of the promotion is not looked at.
get_promotion_any_date(promos, code) ==
    IF code \notin DOMAIN promos THEN NoPromotion
    ELSE [present |-> TRUE, code |-> code,
          discount_percent |-> promos[code].discount_percent,
          min_purchase |-> promos[code].min_purchase,
          valid_until |-> promos[code].valid_until,
          category |-> promos[code].category]

get_promotion(promos, code) ==
    IF code \notin DOMAIN promos THEN NoPromotion
    ELSE IF Now > promos[code].valid_until THEN NoPromotion
    ELSE [present |-> TRUE, code |-> code,
          discount_percent |-> promos[code].discount_percent,
          min_purchase |-> promos[code].min_purchase,
          valid_until |-> promos[code].valid_until,
          category |-> promos[code].category]

increment_usage(promos, code) ==
    IF code \in DOMAIN promos
    THEN [promos EXCEPT ![code].used_count = @ + 1]
    ELSE promos

-----------------------------------------------------------------------------
(* InventoryService and ProductService *)

check_product_availability(prods, product_id, required_quantity) ==
    IF product_id \notin DOMAIN prods THEN FALSE
    ELSE prods[product_id].quantity_available >= required_quantity

\* Faulty variant: the new Product is stored whatever its quantity.
update_product_quantity_unvalidated(prods, product_id, new_quantity) ==
    IF product_id \notin DOMAIN prods THEN [raised |-> FALSE, products |-> prods]
    ELSE [raised |-> FALSE,
          products |-> [prods EXCEPT ![product_id].quantity_available = new_quantity]]

\* "raised" when Product rejects a negative quantity
update_product_quantity(prods, product_id, new_quantity) ==
    IF product_id \notin DOMAIN prods THEN [raised |-> FALSE, products |-> prods]
    ELSE IF new_quantity < 0 THEN [raised |-> TRUE, products |-> prods]
    ELSE [raised |-> FALSE,
          products |-> [prods EXCEPT ![product_id].quantity_available = new_quantity]]

log_inventory_change(logs, product_id, quantity_change, reason) ==
    Append(logs, [product_id |-> product_id, quantity_change |-> quantity_change,
                  reason |-> reason])

-----------------------------------------------------------------------------
(* CustomerService *)

\* Faulty variant: the order id is appended twice.
add_order_to_history_twice(custs, customer_id, order_id) ==
    IF customer_id \notin DOMAIN custs THEN custs
    ELSE [custs EXCEPT ![customer_id].order_history = Append(Append(@, order_id), order_id)]

add_order_to_history(custs, customer_id, order_id) ==
    IF customer_id \notin DOMAIN custs THEN custs
    ELSE [custs EXCEPT ![customer_id].order_history = Append(@, order_id)]

add_loyalty_points(custs, customer_id, points) ==
    IF customer_id \notin DOMAIN custs THEN custs
    ELSE [custs EXCEPT ![customer_id].loyalty_points = @ + points]

\* CustomerService defines no update_loyalty_points: the call in create_order
\* raises AttributeError and stores nothing
update_loyalty_points(custs, customer_id, new_loyalty_points) ==
    [raised |-> TRUE, customers |-> custs]

-----------------------------------------------------------------------------
(* NotificationService *)

send_order_confirmation(log, customer_id, order_id) ==
    Append(log, [customer_id |-> customer_id, order_id |-> order_id,
                 type |-> "order_confirmation"])

-----------------------------------------------------------------------------
(* SupplierService *)

\* the suppliers in the repository
InitSuppliers == {1, 2}

\* the alert is printed when the supplier is in the repository
notify_supplier_reorder(emails, product_id, supplier_id) ==
    IF supplier_id \in InitSuppliers
    THEN Append(emails, [product_id |-> product_id, supplier_id |-> supplier_id])
    ELSE emails

-----------------------------------------------------------------------------
(* OrderService.create_order *)

\* the services' state as one record; down is the set of collaborators whose
\* calls fail during the call under study
State ==
    [customers |-> customers, products |-> products, promotions |-> promotions,
     orders |-> orders, next_id |-> next_id, payment_history |-> payment_history,
     inventory_logs |-> inventory_logs, notification_log |-> notification_log,
     shipments |-> shipments, next_shipment_id |-> next_shipment_id,
     supplier_emails |-> supplier_emails, down |-> {}]

\* how a call ends: the state it leaves, what it returns or raises
Outcome(s, result, why, order_id) ==
    [state |-> s, result |-> result, why |-> why, order_id |-> order_id]

RECURSIVE validate_items(_, _, _)
\* step 2, from line item i on: the first failure, or "ok"
validate_items(prods, order_items, i) ==
    IF i > Len(order_items) THEN "ok"
    ELSE LET item == order_items[i]
         IN IF item.product_id \notin DOMAIN prods THEN "Product not found"
            ELSE IF ~check_product_availability(prods, item.product_id, item.quantity)
            THEN "Not enough stock"
            ELSE IF item.quantity <= 0 \/ item.unit_price < 0 THEN "ValueError"
            ELSE validate_items(prods, order_items, i + 1)

RECURSIVE deduct_inventory(_, _, _, _)
\* step 8, from line item i on; found holds the products read in step 2
deduct_inventory(acc, found, order_items, i) ==
    IF i > Len(order_items) \/ acc.raised THEN acc
    ELSE LET item == order_items[i]
             product == found[item.product_id]
             new_quantity == product.quantity_available - item.quantity
             upd == update_product_quantity(acc.products, item.product_id, new_quantity)
         IN IF upd.raised THEN [acc EXCEPT !.raised = TRUE]
            ELSE deduct_inventory(
                     [raised |-> FALSE, products |-> upd.products,
                      logs |-> log_inventory_change(acc.logs, item.product_id,
                                                    -item.quantity, <<"sale">>)],
                     found, order_items, i + 1)

\* the collaborators create_order calls in steps 11 and 12
Collaborators == {"notification", "supplier"}

\* below this quantity a product counts as low in stock
LowStockThreshold == 5

RECURSIVE notify_low_stock(_, _, _, _, _)
\* step 12, from line item i on; found holds the products read in step 2
notify_low_stock(acc, down, found, order_items, i) ==
    IF i > Len(order_items) \/ acc.raised THEN acc
    ELSE LET item == order_items[i]
             product == found[item.product_id]
         IN IF product.quantity_available < LowStockThreshold
            THEN IF "supplier" \in down THEN [acc EXCEPT !.raised = TRUE]
                 ELSE notify_low_stock(
                          [acc EXCEPT !.emails = notify_supplier_reorder(
                                                     @, item.product_id, product.supplier_id)],
                          down, found, order_items, i + 1)
            ELSE notify_low_stock(acc, down, found, order_items, i + 1)

\* steps 7.5 to 12, after the payment went through
fulfil_order(s, customer_id, order_items, order_id, pricing, total_price, shipping_cost, found) ==
    LET customer == s.customers[customer_id]
        spent == update_loyalty_points(
                     s.customers, customer_id,
                     customer.loyalty_points - pricing.loyalty_points_used)
        use_points == pricing.loyalty_points_used > 0
        s1 == IF use_points THEN [s EXCEPT !.customers = spent.customers] ELSE s
        ded == deduct_inventory([raised |-> FALSE, products |-> s1.products,
                                 logs |-> s1.inventory_logs], found, order_items, 1)
        s2 == [s1 EXCEPT !.products = ded.products, !.inventory_logs = ded.logs]
        order == [order_id |-> order_id, customer_id |-> customer_id,
                  items |-> order_items, total_price |-> total_price,
                  status |-> "pending", created_at |-> Now,
                  shipping_cost |-> shipping_cost, tracking_number |-> 0]
        s3 == [s2 EXCEPT !.orders = [o \in DOMAIN s2.orders \cup {order_id} |->
                                        IF o = order_id THEN order ELSE s2.orders[o]]]
        points_earned == pricing.original_subtotal \div Scale
        s4 == [s3 EXCEPT !.customers =
                  add_loyalty_points(add_order_to_history(@, customer_id, order_id),
                                     customer_id, points_earned)]
        s5 == [s4 EXCEPT !.notification_log =
                  send_order_confirmation(@, customer_id, order_id)]
        alerted == notify_low_stock([raised |-> FALSE, emails |-> s5.supplier_emails],
                                    s.down, found, order_items, 1)
        s6 == [s5 EXCEPT !.supplier_emails = alerted.emails]
    IN IF use_points /\ spent.raised THEN Outcome(s, "raised", "AttributeError", order_id)
       ELSE IF ded.raised THEN Outcome(s2, "raised", "ValueError", order_id)
       ELSE IF Len(order_items) = 0 \/ total_price < 0 \/ shipping_cost < 0
       THEN Outcome(s2, "raised", "ValueError", order_id)
       ELSE IF "notification" \in s.down
       THEN Outcome(s4, "raised", "order confirmation failed", order_id)
       ELSE IF alerted.raised
       THEN Outcome(s6, "raised", "supplier notification failed", order_id)
       ELSE Outcome(s6, "order", "created", order_id)

\* Faulty variant: shipping and tax are computed on the subtotal before discounts.
order_total_on_original(customer, pricing_breakdown, shipping_method) ==
    LET shipping_cost == calculate_shipping_cost(
                             shipping_method, pricing_breakdown.total_weight,
                             pricing_breakdown.original_subtotal,
                             customer.membership_tier)
        tax == calculate_tax(pricing_breakdown.original_subtotal, customer.address)
    IN [shipping_cost |-> shipping_cost, tax |-> tax,
        total_price |-> pricing_breakdown.subtotal_after_loyalty + shipping_cost + tax]

\* steps 4 to 6: shipping on the weight and the discounted subtotal, tax on the
\* discounted subtotal, and their sum
order_total(customer, pricing_breakdown, shipping_method) ==
    LET shipping_cost == calculate_shipping_cost(
                             shipping_method, pricing_breakdown.total_weight,
                             pricing_breakdown.subtotal_after_loyalty,
                             customer.membership_tier)
        tax == calculate_tax(pricing_breakdown.subtotal_after_loyalty, customer.address)
        base_amount == pricing_breakdown.subtotal_after_loyalty
    IN [shipping_cost |-> shipping_cost, tax |-> tax,
        total_price |-> base_amount + shipping_cost + tax]

\* the products step 2 read, by product id
found_products(prods, order_items) ==
    [p \in {order_items[i].product_id : i \in 1..Len(order_items)} |-> prods[p]]

\* step 3: the promotion of the code, counted as used when it resolves, and the
\* pricing of the order
resolve_and_price(s, customer_id, order_items, promo_code) ==
    LET promotion == IF promo_code # None THEN get_promotion(s.promotions, promo_code)
                     ELSE NoPromotion
    IN [state |-> IF promotion.present
                  THEN [s EXCEPT !.promotions = increment_usage(@, promo_code)]
                  ELSE s,
        pricing |-> apply_all_discounts(s.customers[customer_id], order_items,
                                        found_products(s.products, order_items),
                                        promotion)]

\* Faulty variant: the inventory is deducted before the payment is processed.
price_and_pay_after_deduction(s, customer_id, order_items, payment_info, promo_code, shipping_method) ==
    LET priced == resolve_and_price(s, customer_id, order_items, promo_code)
        amounts == order_total(s.customers[customer_id], priced.pricing, shipping_method)
        order_id == priced.state.next_id
        found == found_products(s.products, order_items)
        ded == deduct_inventory([raised |-> FALSE, products |-> s.products,
                                 logs |-> s.inventory_logs], found, order_items, 1)
        s2 == [priced.state EXCEPT !.next_id = @ + 1, !.products = ded.products,
                                   !.inventory_logs = ded.logs]
        paid == process_payment(s2.payment_history, order_id, amounts.total_price,
                                payment_info.type, payment_info)
    IN IF paid.raised THEN Outcome(s2, "raised", "ValueError", order_id)
       ELSE IF ~paid.success THEN Outcome(s2, "None", "Payment failed", order_id)
       ELSE fulfil_order([s2 EXCEPT !.products = s.products,
                                    !.inventory_logs = s.inventory_logs,
                                    !.payment_history = paid.history],
                         customer_id, order_items, order_id, priced.pricing,
                         amounts.total_price, amounts.shipping_cost, found)

\* Faulty variant: the order id is read from the repository and the counter
\* is left as it was.
price_and_pay_reusing_id(s, customer_id, order_items, payment_info, promo_code, shipping_method) ==
    LET priced == resolve_and_price(s, customer_id, order_items, promo_code)
        s1 == priced.state
        amounts == order_total(s.customers[customer_id], priced.pricing, shipping_method)
        order_id == s1.next_id
        paid == process_payment(s1.payment_history, order_id, amounts.total_price,
                                payment_info.type, payment_info)
        s3 == [s1 EXCEPT !.payment_history = paid.history]
    IN IF payment_info.type \notin PaymentMethod
       THEN Outcome(s1, "raised", "ValueError", 0)
       ELSE IF paid.raised THEN Outcome(s1, "raised", "ValueError", order_id)
       ELSE IF ~paid.success THEN Outcome(s1, "None", "Payment failed", order_id)
       ELSE fulfil_order(s3, customer_id, order_items, order_id, priced.pricing,
                         amounts.total_price, amounts.shipping_cost,
                         found_products(s.products, order_items))

\* steps 3 to 12, after customer and line items passed validation
price_and_pay(s, customer_id, order_items, payment_info, promo_code, shipping_method) ==
    LET priced == resolve_and_price(s, customer_id, order_items, promo_code)
        s1 == priced.state
        amounts == order_total(s.customers[customer_id], priced.pricing, shipping_method)
        order_id == s1.next_id
        s2 == [s1 EXCEPT !.next_id = @ + 1]
        paid == process_payment(s2.payment_history, order_id, amounts.total_price,
                                payment_info.type, payment_info)
        s3 == [s2 EXCEPT !.payment_history = paid.history]
    IN IF payment_info.type \notin PaymentMethod
       THEN Outcome(s1, "raised", "ValueError", 0)
       ELSE IF paid.raised THEN Outcome(s2, "raised", "ValueError", order_id)
       ELSE IF ~paid.success THEN Outcome(s2, "None", "Payment failed", order_id)
       ELSE fulfil_order(s3, customer_id, order_items, order_id, priced.pricing,
                         amounts.total_price, amounts.shipping_cost,
                         found_products(s.products, order_items))

\* Faulty variant: the order id is taken from the repository before anything
\* is validated.
create_order_id_first(s, customer_id, order_items, payment_info, promo_code, shipping_method) ==
    LET s0 == [s EXCEPT !.next_id = @ + 1]
    IN IF customer_id \notin DOMAIN s.customers
       THEN Outcome(s0, "None", "Customer not found", 0)
       ELSE IF s.customers[customer_id].membership_tier = "suspended"
       THEN Outcome(s0, "None", "Customer account is suspended", 0)
       ELSE LET checked == validate_items(s.products, order_items, 1)
            IN IF checked = "ValueError" THEN Outcome(s0, "raised", "ValueError", 0)
               ELSE IF checked # "ok" THEN Outcome(s0, "None", checked, 0)
               ELSE price_and_pay(s, customer_id, order_items, payment_info,
                                  promo_code, shipping_method)

create_order(s, customer_id, order_items, payment_info, promo_code, shipping_method) ==
    IF customer_id \notin DOMAIN s.customers
    THEN Outcome(s, "None", "Customer not found", 0)
    ELSE IF s.customers[customer_id].membership_tier = "suspended"
    THEN Outcome(s, "None", "Customer account is suspended", 0)
    ELSE LET checked == validate_items(s.products, order_items, 1)
         IN IF checked = "ValueError" THEN Outcome(s, "raised", "ValueError", 0)
            ELSE IF checked # "ok" THEN Outcome(s, "None", checked, 0)
            ELSE price_and_pay(s, customer_id, order_items, payment_info,
                               promo_code, shipping_method)

-----------------------------------------------------------------------------
(* OrderService.cancel_order *)

RECURSIVE restore_inventory_live(_, _, _, _, _)
\* Faulty variant: each line item is added to the quantity the repository
\* holds at that moment, not to the quantity read before the loop.
restore_inventory_live(acc, all, order_items, order_id, i) ==
    IF i > Len(order_items) \/ acc.raised THEN acc
    ELSE LET item == order_items[i]
         IN IF item.product_id \notin DOMAIN all
            THEN restore_inventory_live(acc, all, order_items, order_id, i + 1)
            ELSE LET product == acc.products[item.product_id]
                     new_quantity == product.quantity_available + item.quantity
                     upd == update_product_quantity(acc.products, item.product_id,
                                                    new_quantity)
                 IN IF upd.raised THEN [acc EXCEPT !.raised = TRUE]
                    ELSE restore_inventory_live(
                             [raised |-> FALSE, products |-> upd.products,
                              logs |-> log_inventory_change(
                                           acc.logs, item.product_id, item.quantity,
                                           <<"order_cancelled_", order_id>>)],
                             all, order_items, order_id, i + 1)

RECURSIVE restore_inventory(_, _, _, _, _)
\* the loop over order.items, from item i on; all holds get_all_products()
restore_inventory(acc, all, order_items, order_id, i) ==
    IF i > Len(order_items) \/ acc.raised THEN acc
    ELSE LET item == order_items[i]
         IN IF item.product_id \notin DOMAIN all
            THEN restore_inventory(acc, all, order_items, order_id, i + 1)
            ELSE LET product == all[item.product_id]
                     new_quantity == product.quantity_available + item.quantity
                     upd == update_product_quantity(acc.products, item.product_id,
                                                    new_quantity)
                 IN IF upd.raised THEN [acc EXCEPT !.raised = TRUE]
                    ELSE restore_inventory(
                             [raised |-> FALSE, products |-> upd.products,
                              logs |-> log_inventory_change(
                                           acc.logs, item.product_id, item.quantity,
                                           <<"order_cancelled_", order_id>>)],
                             all, order_items, order_id, i + 1)

\* NotificationService defines no send_order_cancellation: the call raises
\* AttributeError and logs nothing
send_order_cancellation(log, customer_id, order_id) ==
    [raised |-> TRUE, log |-> log]

\* Faulty variant: the status of the order is not looked at.
cancel_order_any_status(s, order_id) ==
    IF order_id \notin DOMAIN s.orders
    THEN Outcome(s, "False", "Order not found", order_id)
    ELSE LET order == s.orders[order_id]
             res == restore_inventory([raised |-> FALSE, products |-> s.products,
                                       logs |-> s.inventory_logs],
                                      s.products, order.items, order_id, 1)
             s1 == [s EXCEPT !.products = res.products, !.inventory_logs = res.logs]
             s2 == [s1 EXCEPT !.orders[order_id].status = "cancelled"]
         IN IF res.raised THEN Outcome(s1, "raised", "ValueError", order_id)
            ELSE Outcome(s2, "raised", "AttributeError", order_id)

cancel_order(s, order_id) ==
    IF order_id \notin DOMAIN s.orders
    THEN Outcome(s, "False", "Order not found", order_id)
    ELSE IF s.orders[order_id].status # "pending"
    THEN Outcome(s, "False", "Can only cancel pending orders", order_id)
    ELSE LET order == s.orders[order_id]
             res == restore_inventory([raised |-> FALSE, products |-> s.products,
                                       logs |-> s.inventory_logs],
                                      s.products, order.items, order_id, 1)
             s1 == [s EXCEPT !.products = res.products, !.inventory_logs = res.logs]
             s2 == [s1 EXCEPT !.orders[order_id].status = "cancelled"]
             sent == send_order_cancellation(s2.notification_log, order.customer_id,
                                             order_id)
             s3 == [s2 EXCEPT !.notification_log = sent.log]
         IN IF res.raised THEN Outcome(s1, "raised", "ValueError", order_id)
            ELSE IF order.customer_id \in DOMAIN s2.customers /\ sent.raised
            THEN Outcome(s3, "raised", "AttributeError", order_id)
            ELSE Outcome(s3, "True", "cancelled", order_id)

-----------------------------------------------------------------------------
(* InventoryService.restock_product *)

\* supplier_id is 0 when the caller names no supplier: the test is on its truth
\* value
restock_product(s, product_id, quantity, supplier_id) ==
    IF product_id \notin DOMAIN s.products
    THEN Outcome(s, "False", "Product not found", 0)
    ELSE IF supplier_id # 0 /\ s.products[product_id].supplier_id # supplier_id
    THEN Outcome(s, "False", "Supplier mismatch", 0)
    ELSE LET product == s.products[product_id]
             new_quantity == product.quantity_available + quantity
             upd == update_product_quantity(s.products, product_id, new_quantity)
         IN IF upd.raised THEN Outcome(s, "raised", "ValueError", 0)
            ELSE Outcome([s EXCEPT !.products = upd.products,
                                   !.inventory_logs = log_inventory_change(
                                                          @, product_id, quantity,
                                                          <<"restock">>)],
                         "True", "restocked", 0)

-----------------------------------------------------------------------------
(* ShipmentService.create_shipment, OrderService.ship_order and
   OrderService.update_order_status *)

\* rnd is the value random.randint(1000, 9999) returns;
\* the tracking number is the number written TRACK<order_id><rnd>
create_shipment(s, order_id, shipping_method, rnd) ==
    LET shipment_id == s.next_shipment_id
        tracking_number == order_id * 10000 + rnd
        shipment == [shipment_id |-> shipment_id, order_id |-> order_id,
                     tracking_number |-> tracking_number,
                     shipping_method |-> shipping_method, status |-> "pending"]
    IN [state |-> [s EXCEPT !.next_shipment_id = @ + 1,
                            !.shipments = Append(@, shipment)],
        tracking_number |-> tracking_number]

\* tracking_number 0 stands for None
ship_order(s, order_id, rnd) ==
    IF order_id \notin DOMAIN s.orders THEN [state |-> s, tracking_number |-> 0]
    ELSE IF s.orders[order_id].customer_id \notin DOMAIN s.customers
    THEN [state |-> s, tracking_number |-> 0]
    ELSE create_shipment(s, order_id, "standard", rnd)

\* Faulty variant: a shipment is created on every update to SHIPPED, also for
\* an order that has a tracking number.
update_order_status_always_ships(s, order_id, new_status, rnd) ==
    IF order_id \notin DOMAIN s.orders THEN Outcome(s, "None", "Order not found", order_id)
    ELSE LET s1 == [s EXCEPT !.orders[order_id].status = new_status]
             shipped == ship_order(s1, order_id, rnd)
         IN IF new_status = "shipped"
            THEN Outcome([shipped.state EXCEPT !.orders[order_id].tracking_number =
                                                   shipped.tracking_number],
                         "order", "updated", order_id)
            ELSE Outcome(s1, "order", "updated", order_id)

update_order_status(s, order_id, new_status, rnd) ==
    IF order_id \notin DOMAIN s.orders THEN Outcome(s, "None", "Order not found", order_id)
    ELSE LET s1 == [s EXCEPT !.orders[order_id].status = new_status]
         IN IF new_status = "shipped" /\ s1.orders[order_id].tracking_number = 0
            THEN LET shipped == ship_order(s1, order_id, rnd)
                 IN IF shipped.tracking_number # 0
                    THEN Outcome([shipped.state EXCEPT
                                     !.orders[order_id].tracking_number =
                                         shipped.tracking_number],
                                 "order", "updated", order_id)
                    ELSE Outcome(shipped.state, "order", "updated", order_id)
            ELSE Outcome(s1, "order", "updated", order_id)

-----------------------------------------------------------------------------
(* OrderService.apply_additional_discount *)

\* Faulty variant: the discount is applied whatever the status of the order.
apply_additional_discount_any_status(s, order_id, discount_percent) ==
    IF order_id \notin DOMAIN s.orders THEN Outcome(s, "None", "Order not found", order_id)
    ELSE LET new_price == calculate_additional_discount(s.orders[order_id].total_price,
                                                        discount_percent)
         IN IF new_price < 0 THEN Outcome(s, "raised", "ValueError", order_id)
            ELSE Outcome([s EXCEPT !.orders[order_id].total_price = new_price],
                         "order", "discounted", order_id)

\* Faulty variant: the shipping cost is discounted along with the total.
apply_additional_discount_on_shipping(s, order_id, discount_percent) ==
    IF order_id \notin DOMAIN s.orders THEN Outcome(s, "None", "Order not found", order_id)
    ELSE IF s.orders[order_id].status # "pending"
    THEN Outcome(s, "None", "Can only apply discount to pending orders", order_id)
    ELSE LET order == s.orders[order_id]
             new_price == calculate_additional_discount(order.total_price, discount_percent)
             new_shipping == calculate_additional_discount(order.shipping_cost + Dollars(1),
                                                           discount_percent)
         IN IF new_price < 0 THEN Outcome(s, "raised", "ValueError", order_id)
            ELSE Outcome([s EXCEPT !.orders[order_id].total_price = new_price,
                                   !.orders[order_id].shipping_cost = new_shipping],
                         "order", "discounted", order_id)

apply_additional_discount(s, order_id, discount_percent) ==
    IF order_id \notin DOMAIN s.orders THEN Outcome(s, "None", "Order not found", order_id)
    ELSE IF s.orders[order_id].status # "pending"
    THEN Outcome(s, "None", "Can only apply discount to pending orders", order_id)
    ELSE LET new_price == calculate_additional_discount(s.orders[order_id].total_price,
                                                        discount_percent)
         IN IF new_price < 0 THEN Outcome(s, "raised", "ValueError", order_id)
            ELSE Outcome([s EXCEPT !.orders[order_id].total_price = new_price],
                         "order", "discounted", order_id)

-----------------------------------------------------------------------------
(* The state machine *)

OrderIdArgs == 1..(MaxOrders + 1)
DiscountPercents == {50, 100}
TrackingRandoms == {1000, 9999}

NoCall == [op |-> "none", result |-> "None", why |-> "", order_id |-> 0,
           new_status |-> None]

\* a call of op on order order_id
OrderCall(op, order_id) ==
    [op |-> op, order_id |-> order_id, promo_code |-> None,
     shipping_method |-> "standard", new_status |-> None]

\* no pricing call is under study
NoCalc == [customer |-> InitCustomers[1], order_items |-> <<>>,
           promotion |-> NoPromotion, done |-> FALSE, result |-> NoPricing]

\* no shipping cost call is under study
NoQuote == [shipping_method |-> "standard", total_weight |-> 0, subtotal |-> 0,
            customer_tier |-> "standard", done |-> FALSE, cost |-> 0]

\* no create_order call runs side by side with another
NoneInFlight == [c \in {} |-> 0]

Init ==
    /\ customers = InitCustomers
    /\ products = InitProducts
    /\ promotions = InitPromotions
    /\ orders = [o \in {} |-> 0]
    /\ next_id = 1
    /\ payment_history = <<>>
    /\ inventory_logs = <<>>
    /\ notification_log = <<>>
    /\ shipments = <<>>
    /\ next_shipment_id = 1
    /\ supplier_emails = <<>>
    /\ quote = NoQuote
    /\ in_flight = NoneInFlight
    /\ ret = NoCall
    /\ at_creation = [o \in {} |-> 0]
    /\ calc = NoCalc

\* the call ends with outcome out: the services hold out.state and ret tells
\* what was called and how it ended; call.order_id is the order the call
\* worked for
Commit(out, call) ==
    /\ customers' = out.state.customers
    /\ products' = out.state.products
    /\ promotions' = out.state.promotions
    /\ orders' = out.state.orders
    /\ next_id' = out.state.next_id
    /\ payment_history' = out.state.payment_history
    /\ inventory_logs' = out.state.inventory_logs
    /\ notification_log' = out.state.notification_log
    /\ shipments' = out.state.shipments
    /\ next_shipment_id' = out.state.next_shipment_id
    /\ supplier_emails' = out.state.supplier_emails
    /\ ret' = [op |-> call.op, result |-> out.result, why |-> out.why,
               order_id |-> out.order_id, new_status |-> call.new_status]
    /\ calc' = calc
    /\ quote' = quote
    /\ in_flight' = in_flight
    /\ at_creation' =
          LET touched == out.state.products # products
              own == call.order_id
              born == call.op = "create_order" /\ out.result = "order"
          IN [o \in DOMAIN at_creation \cup (IF born THEN {own} ELSE {}) |->
                 IF born /\ o = own
                 THEN [quantity |-> [p \in DOMAIN products |->
                                        products[p].quantity_available],
                       clean |-> TRUE,
                       promo_code |-> call.promo_code,
                       shipping_method |-> call.shipping_method]
                 ELSE IF o = own THEN at_creation[o]
                 ELSE [at_creation[o] EXCEPT !.clean = @ /\ ~touched]]

\* a create_order call with arguments drawn from the given sets
CreateOrderFrom(Cs, Ls, Pays, Codes, Ships) ==
    /\ next_id <= MaxOrders
    /\ \E customer_id \in Cs, order_items \in Ls, payment_info \in Pays,
          promo_code \in Codes, shipping_method \in Ships :
          Commit(create_order(State, customer_id, order_items, payment_info,
                              promo_code, shipping_method),
                 [op |-> "create_order", order_id |-> next_id,
                  promo_code |-> promo_code, shipping_method |-> shipping_method,
                  new_status |-> None])

\* create_order over the full set of customers, line items, payments and
\* codes, shipped the standard way
CreateOrder ==
    CreateOrderFrom(CustomerIds, ItemLists, PaymentInfos, PromoCodes, {"standard"})

\* create_order with each of the other shipping methods
CreateOrderByMethod ==
    CreateOrderFrom({1, 2, 3},
                    {<<ItemOf(1, 1)>>, <<ItemOf(2, 1)>>, <<ItemOf(2, 1), ItemOf(1, MaxQty)>>},
                    {PaidInFull}, PromoCodes, ShippingChoices \ {"standard"})

\* create_order with a promotion code that does not resolve
CreateOrderStaleCode ==
    CreateOrderFrom({1, 2, 3},
                    {<<ItemOf(1, 1)>>, <<ItemOf(2, 1), ItemOf(1, 1)>>, <<ItemOf(3, 1)>>},
                    {PaidInFull}, StaleCodes, {"standard"})

\* the one order whose life cycle is explored
PlaceOrder ==
    /\ DOMAIN orders = {}
    /\ CreateOrderFrom({1, 3}, {<<ItemOf(1, 1)>>, <<ItemOf(2, 1), ItemOf(1, 1)>>},
                       {PaidInFull}, {None}, {"standard"})

CancelOrder ==
    \E order_id \in OrderIdArgs :
        /\ Len(inventory_logs) < MaxLogs
        /\ Commit(cancel_order(State, order_id), OrderCall("cancel_order", order_id))

UpdateOrderStatus ==
    \E order_id \in OrderIdArgs, new_status \in OrderStatus, rnd \in TrackingRandoms :
        Commit(update_order_status(State, order_id, new_status, rnd),
               [OrderCall("update_order_status", order_id)
                   EXCEPT !.new_status = new_status])

ApplyAdditionalDiscount ==
    \E order_id \in OrderIdArgs, discount_percent \in DiscountPercents :
        /\ (order_id \in DOMAIN orders /\ orders[order_id].status = "pending")
              => orders[order_id].total_price >= Dollars(MinDiscountable)
        /\ Commit(apply_additional_discount(State, order_id, discount_percent),
                  OrderCall("apply_additional_discount", order_id))

\* OrderService.ship_order called on its own; the result is the tracking number
\* or None
ShipOrder ==
    \E order_id \in OrderIdArgs, rnd \in TrackingRandoms :
        /\ Len(shipments) < MaxShipments
        /\ LET shipped == ship_order(State, order_id, rnd)
           IN Commit(Outcome(shipped.state,
                             IF shipped.tracking_number = 0 THEN "None" ELSE "tracking",
                             "", order_id),
                     OrderCall("ship_order", order_id))

\* placing and cancelling orders, over the full set of create_order arguments
Next ==
    \/ CreateOrder
    \/ CreateOrderByMethod
    \/ CreateOrderStaleCode
    \/ CancelOrder

Spec == Init /\ [][Next]_vars

\* the life cycle of the orders placed: every OrderService operation on an order
NextLifecycle ==
    \/ PlaceOrder
    \/ CancelOrder
    \/ UpdateOrderStatus
    \/ ShipOrder
    \/ ApplyAdditionalDiscount

SpecLifecycle == Init /\ [][NextLifecycle]_vars

-----------------------------------------------------------------------------
(* PricingService.apply_all_discounts on its own, over a range of arguments *)

PricingTiers == {"standard", "bronze", "silver", "gold"}
PricingPoints == {0, 99, 100, 2000, 5000}

PricingCustomers ==
    {[membership_tier |-> t, address |-> {}, loyalty_points |-> n,
      order_history |-> <<>>] : t \in PricingTiers, n \in PricingPoints}

\* the 10% promotion on everything, as a promotion object
Save10 ==
    [present |-> TRUE, code |-> "SAVE10", discount_percent |-> 10,
     min_purchase |-> Dollars(0), valid_until |-> Now + 5, category |-> "all"]

\* none; 10% on everything; 20% on one category; 10% from $200 up; 10%
\* expired; 0% and 100% on everything
PricingPromotions ==
    {NoPromotion,
     Save10,
     [present |-> TRUE, code |-> "ELEC20", discount_percent |-> 20,
      min_purchase |-> Dollars(0), valid_until |-> Now + 5, category |-> "Electronics"],
     [present |-> TRUE, code |-> "BIG10", discount_percent |-> 10,
      min_purchase |-> Dollars(200), valid_until |-> Now + 5, category |-> "all"],
     [present |-> TRUE, code |-> "LATE10", discount_percent |-> 10,
      min_purchase |-> Dollars(0), valid_until |-> Now - 1, category |-> "all"],
     [present |-> TRUE, code |-> "ZERO", discount_percent |-> 0,
      min_purchase |-> Dollars(0), valid_until |-> Now + 5, category |-> "all"],
     [present |-> TRUE, code |-> "FREE", discount_percent |-> 100,
      min_purchase |-> Dollars(0), valid_until |-> Now + 5, category |-> "all"]}

\* fewer than 5 items, 5 to 9 items, 10 items and more
PricingItemLists ==
    {<<ItemOf(1, 1)>>, <<ItemOf(2, 1)>>, <<ItemOf(1, 5)>>, <<ItemOf(2, 10)>>,
     <<ItemOf(1, 2), ItemOf(2, 3)>>, <<ItemOf(2, 4), ItemOf(1, 6)>>}

InitPricing ==
    /\ customers = InitCustomers
    /\ products = InitProducts
    /\ promotions = InitPromotions
    /\ orders = [o \in {} |-> 0]
    /\ next_id = 1
    /\ payment_history = <<>>
    /\ inventory_logs = <<>>
    /\ notification_log = <<>>
    /\ shipments = <<>>
    /\ next_shipment_id = 1
    /\ supplier_emails = <<>>
    /\ quote = NoQuote
    /\ in_flight = NoneInFlight
    /\ ret = NoCall
    /\ at_creation = [o \in {} |-> 0]
    /\ \E customer \in PricingCustomers, order_items \in PricingItemLists,
          promotion \in PricingPromotions :
          calc = [NoCalc EXCEPT !.customer = customer, !.order_items = order_items,
                                !.promotion = promotion]

ApplyAllDiscounts ==
    /\ ~calc.done
    /\ calc' = [calc EXCEPT !.done = TRUE,
                            !.result = apply_all_discounts(calc.customer, calc.order_items,
                                                           products, calc.promotion)]
    /\ UNCHANGED <<customers, products, promotions, orders, next_id, payment_history,
                   inventory_logs, notification_log, shipments, next_shipment_id,
                   supplier_emails, ret, at_creation, quote, in_flight>>

NextPricing == ApplyAllDiscounts

SpecPricing == InitPricing /\ [][NextPricing]_vars

-----------------------------------------------------------------------------
(* create_order on products in stock around the low stock threshold, with
   collaborators that may fail *)

\* the quantities the two products start with
ReorderStocks == [p \in DOMAIN InitProducts |-> IF p = 1 THEN {4, 5, 6, 7} ELSE {1, 5, 6}]

InitNotify ==
    /\ customers = InitCustomers
    /\ \E q1 \in ReorderStocks[1], q2 \in ReorderStocks[2] :
          products = [p \in DOMAIN InitProducts |->
                         [InitProducts[p] EXCEPT !.quantity_available =
                                                     IF p = 1 THEN q1 ELSE q2]]
    /\ promotions = InitPromotions
    /\ orders = [o \in {} |-> 0]
    /\ next_id = 1
    /\ payment_history = <<>>
    /\ inventory_logs = <<>>
    /\ notification_log = <<>>
    /\ shipments = <<>>
    /\ next_shipment_id = 1
    /\ supplier_emails = <<>>
    /\ quote = NoQuote
    /\ in_flight = NoneInFlight
    /\ ret = NoCall
    /\ at_creation = [o \in {} |-> 0]
    /\ calc = NoCalc

\* create_order while the collaborators in down fail
CreateOrderNotified ==
    /\ next_id <= MaxOrders
    /\ \E customer_id \in {1, 3, 4}, payment_info \in PaymentInfos, down \in SUBSET Collaborators,
          order_items \in {<<ItemOf(1, 1)>>, <<ItemOf(1, MaxQty)>>, <<ItemOf(2, 1)>>,
                           <<ItemOf(1, 1), ItemOf(2, 1)>>, <<ItemOf(2, MaxQty), ItemOf(1, 1)>>} :
          Commit(create_order([State EXCEPT !.down = down], customer_id, order_items,
                              payment_info, None, "standard"),
                 [op |-> "create_order", order_id |-> next_id, promo_code |-> None,
                  shipping_method |-> "standard", new_status |-> None])

NextNotify == CreateOrderNotified

SpecNotify == InitNotify /\ [][NextNotify]_vars

-----------------------------------------------------------------------------
(* Several create_order calls in a row *)

\* create_order, as long as the order store has handed out at most MaxIds ids
CreateOrderInTurn ==
    /\ next_id <= MaxIds
    /\ \E customer_id \in {1, 3, 5}, payment_info \in PaymentInfos,
          order_items \in {<<ItemOf(1, 1)>>, <<ItemOf(2, 1)>>, <<ItemOf(1, 1), ItemOf(2, 1)>>} :
          Commit(create_order(State, customer_id, order_items, payment_info,
                              None, "standard"),
                 [op |-> "create_order", order_id |-> next_id, promo_code |-> None,
                  shipping_method |-> "standard", new_status |-> None])

NextOrders == CreateOrderInTurn

SpecOrders == Init /\ [][NextOrders]_vars

-----------------------------------------------------------------------------
(* ShippingService.calculate_shipping_cost on its own, over a range of arguments *)

\* below, just below, at and above the free shipping threshold
ShippingSubtotals == {0, Dollars(50) - Scale \div 100, Dollars(50), Dollars(100)}
ShippingWeights == {0, 1, 3}

InitShipping ==
    /\ customers = InitCustomers
    /\ products = InitProducts
    /\ promotions = InitPromotions
    /\ orders = [o \in {} |-> 0]
    /\ next_id = 1
    /\ payment_history = <<>>
    /\ inventory_logs = <<>>
    /\ notification_log = <<>>
    /\ shipments = <<>>
    /\ next_shipment_id = 1
    /\ supplier_emails = <<>>
    /\ ret = NoCall
    /\ at_creation = [o \in {} |-> 0]
    /\ calc = NoCalc
    /\ in_flight = NoneInFlight
    /\ \E shipping_method \in ShippingMethod, total_weight \in ShippingWeights,
          subtotal \in ShippingSubtotals, customer_tier \in MembershipTier :
          quote = [NoQuote EXCEPT !.shipping_method = shipping_method,
                                  !.total_weight = total_weight,
                                  !.subtotal = subtotal,
                                  !.customer_tier = customer_tier]

CalculateShippingCost ==
    /\ ~quote.done
    /\ quote' = [quote EXCEPT !.done = TRUE,
                              !.cost = calculate_shipping_cost(
                                           quote.shipping_method, quote.total_weight,
                                           quote.subtotal, quote.customer_tier)]
    /\ UNCHANGED <<customers, products, promotions, orders, next_id, payment_history,
                   inventory_logs, notification_log, shipments, next_shipment_id,
                   supplier_emails, ret, at_creation, calc, in_flight>>

NextShipping == CalculateShippingCost

SpecShipping == InitShipping /\ [][NextShipping]_vars

-----------------------------------------------------------------------------
(* PaymentService on its own: process_payment and process_refund *)

PaymentOrderIds == {1, 2}
PaymentAmounts == {0, Dollars(5)}

\* card_number is the length of the card number; a dictionary without
\* 'amount' is a record without that field
PaymentDicts ==
    {[valid |-> TRUE, card_number |-> 16, email |-> TRUE, amount |-> Dollars(5)],
     [valid |-> TRUE, card_number |-> 16, email |-> TRUE, amount |-> Dollars(1)],
     [valid |-> TRUE, card_number |-> 16, email |-> TRUE],
     [valid |-> TRUE, card_number |-> 15, email |-> FALSE, amount |-> Dollars(5)],
     [valid |-> FALSE, card_number |-> 16, email |-> TRUE, amount |-> Dollars(5)]}

\* what the last PaymentService call was given and how it ended
PaymentCall(op, order_id, amount, payment_method, payment_info, res) ==
    [op |-> op, order_id |-> order_id, amount |-> amount,
     payment_method |-> payment_method, payment_info |-> payment_info,
     why |-> "",
     result |-> IF res.raised THEN "raised"
                ELSE IF res.success THEN "True" ELSE "False"]

ProcessPayment ==
    /\ Len(payment_history) < MaxLedger
    /\ \E order_id \in PaymentOrderIds, amount \in PaymentAmounts,
          payment_method \in PaymentMethod, payment_info \in PaymentDicts :
          LET res == process_payment(payment_history, order_id, amount,
                                     payment_method, payment_info)
          IN /\ payment_history' = res.history
             /\ ret' = PaymentCall("process_payment", order_id, amount,
                                   payment_method, payment_info, res)
    /\ UNCHANGED <<customers, products, promotions, orders, next_id, inventory_logs,
                   notification_log, shipments, next_shipment_id, supplier_emails,
                   at_creation, calc, quote, in_flight>>

ProcessRefund ==
    /\ Len(payment_history) < MaxLedger
    /\ \E order_id \in PaymentOrderIds, amount \in PaymentAmounts :
          LET res == process_refund(payment_history, order_id, amount)
          IN /\ payment_history' = res.history
             /\ ret' = PaymentCall("process_refund", order_id, amount, None,
                                   [valid |-> FALSE], res)
    /\ UNCHANGED <<customers, products, promotions, orders, next_id, inventory_logs,
                   notification_log, shipments, next_shipment_id, supplier_emails,
                   at_creation, calc, quote, in_flight>>

NextPayment ==
    \/ ProcessPayment
    \/ ProcessRefund

SpecPayment == Init /\ [][NextPayment]_vars

-----------------------------------------------------------------------------
(* The operations that write quantity_available, called one after the other *)

\* one unit in, or more out than an order leaves
RestockQuantities == {-MaxQty, 1}
RestockSuppliers == {0, 1}

\* create_order for one product, for one product twice, for two products
CreateOrderOnStock ==
    CreateOrderFrom({1},
                    {<<ItemOf(1, 1)>>, <<ItemOf(1, MaxQty), ItemOf(1, 1)>>,
                     <<ItemOf(2, 1), ItemOf(1, MaxQty)>>},
                    {PaidInFull}, {None}, {"standard"})

RestockProduct ==
    \E product_id \in {1, 3}, quantity \in RestockQuantities,
       supplier_id \in RestockSuppliers :
        /\ Len(inventory_logs) < MaxLogs
        /\ product_id \in DOMAIN products =>
              products[product_id].quantity_available + quantity <= MaxStock
        /\ Commit(restock_product(State, product_id, quantity, supplier_id),
                  OrderCall("restock_product", 0))

NextStock ==
    \/ CreateOrderOnStock
    \/ CancelOrder
    \/ RestockProduct
    \/ UpdateOrderStatus

SpecStock == Init /\ [][NextStock]_vars

-----------------------------------------------------------------------------
(* Two create_order calls for the same product, run side by side.  Nothing in *)
(* OrderService, InventoryService or the repositories takes a lock, so the    *)
(* steps of the two calls interleave freely: the stock check of step 2, the   *)
(* pricing and payment of steps 3 to 7, and steps 7.5 to 12 with the          *)
(* deduction.                                                                 *)

Callers == {1, 2}
RaceProduct == 1
RaceStocks == 1..3

\* the customer each caller orders for
CallerCustomer(c) == IF c = 1 THEN 1 ELSE 3

\* the local variables of a create_order call that has not started; stock is
\* history: what the product had when the two calls were issued
NotStarted(customer_id, quantity, stock) ==
    [pc |-> "start", customer_id |-> customer_id, stock |-> stock,
     order_items |-> <<ItemOf(RaceProduct, quantity)>>,
     found |-> [p \in {} |-> 0], pricing |-> NoPricing, order_id |-> 0,
     total_price |-> 0, shipping_cost |-> 0, result |-> None]

InitRace ==
    /\ customers = InitCustomers
    /\ promotions = InitPromotions
    /\ orders = [o \in {} |-> 0]
    /\ next_id = 1
    /\ payment_history = <<>>
    /\ inventory_logs = <<>>
    /\ notification_log = <<>>
    /\ shipments = <<>>
    /\ next_shipment_id = 1
    /\ supplier_emails = <<>>
    /\ quote = NoQuote
    /\ ret = NoCall
    /\ at_creation = [o \in {} |-> 0]
    /\ calc = NoCalc
    /\ \E stock \in RaceStocks, q1 \in 1..MaxQty, q2 \in 1..MaxQty :
          /\ products = [InitProducts EXCEPT ![RaceProduct].quantity_available = stock]
          /\ in_flight = [c \in Callers |->
                             NotStarted(CallerCustomer(c), IF c = 1 THEN q1 ELSE q2, stock)]

\* steps 1 and 2 of caller c: the customer, then every line item against the
\* stock of the moment; the products read are kept for the later steps
CheckStock(c) ==
    /\ in_flight[c].pc = "start"
    /\ LET me == in_flight[c]
           refused == \/ me.customer_id \notin DOMAIN customers
                      \/ customers[me.customer_id].membership_tier = "suspended"
                      \/ validate_items(products, me.order_items, 1) # "ok"
       IN in_flight' =
             [in_flight EXCEPT ![c] =
                 IF refused THEN [me EXCEPT !.pc = "done"]
                 ELSE [me EXCEPT !.pc = "checked",
                                 !.found = found_products(products, me.order_items)]]
    /\ UNCHANGED <<customers, products, promotions, orders, next_id, payment_history,
                   inventory_logs, notification_log, shipments, next_shipment_id,
                   supplier_emails, ret, at_creation, calc, quote>>

\* steps 3 to 7 of caller c: pricing on the products read in step 2, the next
\* order id, the payment
PayOrder(c) ==
    /\ in_flight[c].pc = "checked"
    /\ LET me == in_flight[c]
           priced == resolve_and_price([State EXCEPT !.products = me.found],
                                       me.customer_id, me.order_items, None)
           amounts == order_total(customers[me.customer_id], priced.pricing, "standard")
           paid == process_payment(payment_history, next_id, amounts.total_price,
                                   PaidInFull.type, PaidInFull)
       IN /\ next_id' = next_id + 1
          /\ payment_history' = paid.history
          /\ in_flight' =
                [in_flight EXCEPT ![c] =
                    IF paid.raised \/ ~paid.success THEN [me EXCEPT !.pc = "done"]
                    ELSE [me EXCEPT !.pc = "paid", !.pricing = priced.pricing,
                                    !.order_id = next_id,
                                    !.total_price = amounts.total_price,
                                    !.shipping_cost = amounts.shipping_cost]]
    /\ UNCHANGED <<customers, products, promotions, orders, inventory_logs,
                   notification_log, shipments, next_shipment_id, supplier_emails,
                   ret, at_creation, calc, quote>>

\* steps 7.5 to 12 of caller c: the deduction from the quantities read in
\* step 2, the order, the history, the notifications
DeductAndStore(c) ==
    /\ in_flight[c].pc = "paid"
    /\ LET me == in_flight[c]
           out == fulfil_order(State, me.customer_id, me.order_items, me.order_id,
                               me.pricing, me.total_price, me.shipping_cost, me.found)
       IN /\ customers' = out.state.customers
          /\ products' = out.state.products
          /\ orders' = out.state.orders
          /\ inventory_logs' = out.state.inventory_logs
          /\ notification_log' = out.state.notification_log
          /\ supplier_emails' = out.state.supplier_emails
          /\ ret' = [op |-> "create_order", result |-> out.result, why |-> out.why,
                     order_id |-> out.order_id, new_status |-> None]
          /\ in_flight' = [in_flight EXCEPT ![c] = [me EXCEPT !.pc = "done",
                                                              !.result = out.result]]
    /\ UNCHANGED <<promotions, next_id, payment_history, shipments, next_shipment_id,
                   at_creation, calc, quote>>

NextRace ==
    \E c \in Callers :
        \/ CheckStock(c)
        \/ PayOrder(c)
        \/ DeductAndStore(c)

SpecRace == InitRace /\ [][NextRace]_vars

-----------------------------------------------------------------------------
(* Properties of create_order when no order results *)

\* the quantity of every product is what it was before the step
QuantitiesKept ==
    /\ DOMAIN products' = DOMAIN products
    /\ \A p \in DOMAIN products :
          products'[p].quantity_available = products[p].quantity_available

\* C1: when process_payment fails during create_order, the call returns None,
\* no product quantity changes, no inventory log entry is written and the
\* order repository is as it was before the call.
C1_PaymentFailureLeavesInventory ==
    [][(ret'.op = "create_order" /\ ret'.why = "Payment failed") =>
          /\ ret'.result = "None"
          /\ QuantitiesKept
          /\ inventory_logs' = inventory_logs
          /\ orders' = orders]_vars

\* a create_order call passed validation, took an order id and had its payment
\* refused
C1_Witness ==
    /\ ret.op = "create_order"
    /\ ret.why = "Payment failed"
    /\ ret.order_id = 1
    /\ next_id = 2
    /\ payment_history = <<>>

\* C2: a create_order call that does not end with a stored order, whether it
\* returns None or raises, records no payment transaction, changes no product
\* quantity and stores no order.
C2_NoOrderNoCharge ==
    [][(ret'.op = "create_order" /\ ret'.result # "order") =>
          /\ payment_history' = payment_history
          /\ QuantitiesKept
          /\ orders' = orders]_vars

\* C8: create_order called for a customer that is missing or SUSPENDED, or with
\* a line item whose product is missing or short of stock (also after line
\* items that passed), returns None and leaves quantities, inventory log,
\* orders, next order id, customers, promotions and the payment ledger as
\* they were.
C8_FailedValidationChangesNothing ==
    \A customer_id \in CustomerIds, order_items \in ItemLists :
        LET refused ==
                \/ customer_id \notin DOMAIN customers
                \/ customers[customer_id].membership_tier = "suspended"
                \/ \E i \in 1..Len(order_items) :
                      \/ order_items[i].product_id \notin DOMAIN products
                      \/ products[order_items[i].product_id].quantity_available
                            < order_items[i].quantity
            out == create_order(State, customer_id, order_items, PaidInFull,
                                "SAVE10", "standard")
        IN refused => /\ out.result = "None"
                      /\ out.state = State

\* a create_order call was refused for lack of stock and the order id, the
\* promotions and the ledger are untouched
C8_Witness ==
    /\ ret.op = "create_order"
    /\ ret.result = "None"
    /\ ret.why = "Not enough stock"
    /\ next_id = 1
    /\ promotions = InitPromotions
    /\ payment_history = <<>>
    /\ create_order(State, 1, <<ItemOf(1, 1), ItemOf(2, MaxQty)>>, PaidInFull,
                    "SAVE10", "standard").why = "Not enough stock"

-----------------------------------------------------------------------------
(* Properties of cancel_order and of the order status *)

\* C3: cancel_order returns True only for an order that exists and is
\* PENDING; called on a missing order or on an order in another status it
\* returns False and leaves product quantities, the inventory log and the
\* order as they were.
C3_CancelOnlyPending ==
    [][ret'.op = "cancel_order" =>
          LET order_id == ret'.order_id
              cancellable == /\ order_id \in DOMAIN orders
                             /\ orders[order_id].status = "pending"
          IN /\ ret'.result # "False" => cancellable
             /\ ~cancellable => /\ ret'.result = "False"
                                /\ products' = products
                                /\ inventory_logs' = inventory_logs
                                /\ orders' = orders]_vars

\* cancel_order refused an order that had been shipped
C3_Witness ==
    /\ ret.op = "cancel_order"
    /\ ret.result = "False"
    /\ ret.order_id \in DOMAIN orders
    /\ orders[ret.order_id].status = "shipped"
    /\ orders[ret.order_id].tracking_number # 0

DocumentedMoves ==
    {<<"pending", "shipped">>, <<"shipped", "delivered">>, <<"pending", "cancelled">>}

-----------------------------------------------------------------------------
(* Properties of a create_order call that stores an order *)

RECURSIVE QuantityOrdered(_, _, _)
\* the sum of the quantities of the line items of product p, from item i on
QuantityOrdered(order_items, p, i) ==
    IF i > Len(order_items) THEN 0
    ELSE (IF order_items[i].product_id = p THEN order_items[i].quantity ELSE 0)
         + QuantityOrdered(order_items, p, i + 1)

\* one 'sale' entry per line item, with the negated quantity
SaleEntries(order_items) ==
    [i \in 1..Len(order_items) |->
        [product_id |-> order_items[i].product_id,
         quantity_change |-> -order_items[i].quantity, reason |-> <<"sale">>]]

\* the step is a create_order call that stored an order
OrderCreated == ret'.op = "create_order" /\ ret'.result = "order"

\* C6: after a create_order that stores an order, the quantity of each product
\* is its quantity before the call minus the sum of the quantities of all
\* line items of that product, and the inventory log has gained one 'sale'
\* entry with the negated quantity per line item.
C6_StockDropsBySum ==
    [][OrderCreated =>
          LET order_items == orders'[ret'.order_id].items
          IN /\ \A p \in DOMAIN products :
                   products'[p].quantity_available =
                       products[p].quantity_available - QuantityOrdered(order_items, p, 1)
             /\ inventory_logs' = inventory_logs \o SaleEntries(order_items)]_vars

\* the pricing of the order a create_order step stored, from the state before
PricingOfCreated ==
    LET order == orders'[ret'.order_id]
        promo_code == at_creation'[ret'.order_id].promo_code
    IN apply_all_discounts(customers[order.customer_id], order.items, products,
                           IF promo_code # None THEN get_promotion(promotions, promo_code)
                           ELSE NoPromotion)

\* C7: a create_order call whose payment went through stores the order, also
\* for a customer with 100 loyalty points or more whose order consumes some,
\* and leaves the customer with the points held before, minus the points the
\* order used, plus the whole dollars of the original subtotal.
C7_LoyaltyPointsSettled ==
    [][(/\ ret'.op = "create_order"
        /\ Len(payment_history') = Len(payment_history) + 1
        /\ ret'.why # "ValueError") =>
          /\ ret'.result = "order"
          /\ LET c == orders'[ret'.order_id].customer_id
             IN customers'[c].loyalty_points =
                    customers[c].loyalty_points
                      - PricingOfCreated.loyalty_points_used
                      + PricingOfCreated.original_subtotal \div Scale]_vars

\* C9: the total_price of the order create_order stores is the subtotal after
\* the loyalty discount, plus the shipping cost computed from the total
\* weight and that discounted subtotal, plus the tax at the rate of the
\* customer's address on that discounted subtotal.  A GOLD customer in CA
\* buying one $100 item of 1 kg, no promotion, STANDARD shipping: 85 + 0 +
\* 6.1625 = 91.1625.
C9_TotalIsSubtotalShippingTax ==
    [][OrderCreated =>
          LET order == orders'[ret'.order_id]
              customer == customers[order.customer_id]
              discounted == PricingOfCreated.subtotal_after_loyalty
              shipping_method == at_creation'[ret'.order_id].shipping_method
              shipping == calculate_shipping_cost(shipping_method,
                                                  PricingOfCreated.total_weight,
                                                  discounted, customer.membership_tier)
              tax == calculate_tax(discounted, customer.address)
          IN /\ order.total_price = discounted + shipping + tax
             /\ order.shipping_cost = shipping
             /\ (/\ customer.membership_tier = "gold"
                 /\ "CA" \in customer.address
                 /\ order.items = <<ItemOf(1, 1)>>
                 /\ at_creation'[ret'.order_id].promo_code = None
                 /\ shipping_method = "standard")
                   => /\ discounted = 85 * Scale
                      /\ shipping = 0
                      /\ tax = 6162500
                      /\ order.total_price = 91162500]_vars

\* the GOLD customer in CA holds an order for one $100 item, no promotion,
\* STANDARD shipping
C9_Witness ==
    /\ ret.op = "create_order"
    /\ ret.result = "order"
    /\ orders[ret.order_id].customer_id = 1
    /\ orders[ret.order_id].items = <<ItemOf(1, 1)>>
    /\ at_creation[ret.order_id].promo_code = None
    /\ at_creation[ret.order_id].shipping_method = "standard"
    /\ orders[ret.order_id].total_price = 91162500

-----------------------------------------------------------------------------
(* Properties of PricingService.apply_all_discounts *)

\* C10: apply_all_discounts takes the membership discount first, then the
\* promotion, then the bulk discount, then the loyalty discount, each rate on
\* the subtotal the discounts before it left: the price is the subtotal times
\* (1 - membership rate) times (1 - promotion rate) times (1 - bulk rate),
\* less the loyalty discount on that product.  A subtotal of 100 for a GOLD
\* customer with a 10% promotion on everything, fewer than 5 items and fewer
\* than 100 points gives 76.5, not 75.
C10_RatesApplyToRunningSubtotal ==
    calc.done =>
        LET customer == calc.customer
            order_items == calc.order_items
            promotion == calc.promotion
            dollars == QuantityOrdered(order_items, 1, 1) * (InitProducts[1].price \div Scale)
                       + QuantityOrdered(order_items, 2, 1) * (InitProducts[2].price \div Scale)
            membership_percent == CASE customer.membership_tier = "gold" -> 15
                                    [] customer.membership_tier = "silver" -> 7
                                    [] customer.membership_tier = "bronze" -> 3
                                    [] OTHER -> 0
            applies == /\ promotion.present
                       /\ promotion.valid_until >= Now
                       /\ Dollars(dollars) >= promotion.min_purchase
                       /\ \/ promotion.category = "all"
                          \/ \E i \in 1..Len(order_items) :
                                products[order_items[i].product_id].category
                                    = promotion.category
            promotion_tenths == IF applies THEN promotion.discount_percent \div 10 ELSE 0
            total_items == QuantityOrdered(order_items, 1, 1)
                           + QuantityOrdered(order_items, 2, 1)
            bulk_percent == IF total_items >= 10 THEN 5
                            ELSE IF total_items >= 5 THEN 2 ELSE 0
            \* dollars * 100 * 10 * 100 * 10 counts 1/Scale dollars
            after_bulk == dollars * (100 - membership_percent) * (10 - promotion_tenths)
                            * (100 - bulk_percent) * 10
            loyalty == IF customer.loyalty_points < 100 THEN 0
                       ELSE Min(after_bulk \div 10,
                                customer.loyalty_points * (Scale \div 100))
        IN /\ calc.result.original_subtotal = Dollars(dollars)
           /\ calc.result.subtotal_after_loyalty = after_bulk - loyalty
           /\ (/\ customer.membership_tier = "gold"
               /\ customer.loyalty_points < 100
               /\ order_items = <<ItemOf(1, 1)>>
               /\ promotion = Save10)
                 => /\ calc.result.subtotal_after_loyalty = 76500000
                    /\ calc.result.subtotal_after_loyalty # Dollars(75)

\* the order of the example has been priced at 76.5
C10_Witness ==
    /\ calc.done
    /\ calc.customer.membership_tier = "gold"
    /\ calc.customer.loyalty_points = 99
    /\ calc.order_items = <<ItemOf(1, 1)>>
    /\ calc.promotion = Save10
    /\ calc.result.subtotal_after_loyalty = 76500000

-----------------------------------------------------------------------------
(* Properties of the promotion code of create_order *)

\* the stored orders that were placed with promotion code `code`, in the
\* state after the step
PlacedWith(code) ==
    {o \in DOMAIN orders' : at_creation'[o].promo_code = code}

\* C11: the used_count of a promotion counts redemptions: after any sequence of
\* create_order calls it equals the number of stored orders that were placed
\* with the code of that promotion, and it never decreases.
C11_UsedCountCountsOrders ==
    [][\A code \in DOMAIN promotions :
          /\ promotions'[code].used_count >= promotions[code].used_count
          /\ promotions'[code].used_count = Cardinality(PlacedWith(code))]_vars

\* C12: create_order with a promotion code that is unknown or past its
\* valid_until does not fail because of the code: the call ends as the same
\* call with no code ends, the order stored has the same total, and the
\* used_count of no promotion changes.
C12_StaleCodeIsNoCode ==
    \A customer_id \in {1, 3, 5}, code \in StaleCodes,
       order_items \in {<<ItemOf(1, 1)>>, <<ItemOf(2, 1), ItemOf(1, 1)>>,
                        <<ItemOf(1, MaxQty)>>} :
        LET with_code == create_order(State, customer_id, order_items, PaidInFull,
                                      code, "standard")
            without == create_order(State, customer_id, order_items, PaidInFull,
                                    None, "standard")
        IN /\ with_code.result = without.result
           /\ with_code.state.orders = without.state.orders
           /\ with_code.state.promotions = promotions

\* an order placed with the expired code is stored at the total of the same
\* order without a code, and no promotion was counted as used
C12_Witness ==
    /\ ret.op = "create_order"
    /\ ret.result = "order"
    /\ at_creation[ret.order_id].promo_code = "OLD20"
    /\ at_creation[ret.order_id].shipping_method = "standard"
    /\ orders[ret.order_id].customer_id = 1
    /\ orders[ret.order_id].items = <<ItemOf(1, 1)>>
    /\ orders[ret.order_id].total_price = 91162500
    /\ promotions = InitPromotions

-----------------------------------------------------------------------------
(* Properties of PaymentService *)

\* the step is a process_payment call; whether its payment_info passes the
\* validation of its payment method; whether it provides the amount due
PaymentProcessed == ret'.op = "process_payment"

PaymentAccepted ==
    /\ ret'.payment_info.valid
    /\ ret'.payment_method = "credit_card" => ret'.payment_info.card_number >= 16
    /\ ret'.payment_method = "paypal" => ret'.payment_info.email

PaymentFunded ==
    IF "amount" \in DOMAIN ret'.payment_info
    THEN ret'.payment_info.amount >= ret'.amount
    ELSE 0 >= ret'.amount

\* the ledger gained exactly the COMPLETED transaction of the call
PaymentRecorded ==
    payment_history' =
        Append(payment_history,
               [order_id |-> ret'.order_id, amount |-> ret'.amount,
                is_refund |-> FALSE, payment_method |-> ret'.payment_method,
                status |-> "completed"])

C14_RefundNeedsCompletedPayment ==
    [][ret'.op = "process_refund" =>
          LET refundable ==
                  \E i \in 1..Len(payment_history) :
                      /\ payment_history[i].order_id = ret'.order_id
                      /\ ~payment_history[i].is_refund
                      /\ payment_history[i].status = "completed"
          IN /\ ret'.result = "True" =>
                   /\ refundable
                   /\ Len(payment_history') = Len(payment_history) + 1
                   /\ SubSeq(payment_history', 1, Len(payment_history)) = payment_history
                   /\ payment_history'[Len(payment_history')].is_refund
                   /\ payment_history'[Len(payment_history')].order_id = ret'.order_id
                   /\ payment_history'[Len(payment_history')].amount = ret'.amount
             /\ ~refundable => ret'.result = "False"
             /\ ret'.result # "True" => payment_history' = payment_history]_vars

\* a payment was refunded: the refund stands behind the payment, which is
\* still COMPLETED
C14_Witness ==
    /\ ret.op = "process_refund"
    /\ ret.result = "True"
    /\ Len(payment_history) = 2
    /\ payment_history[1].order_id = ret.order_id
    /\ payment_history[1].status = "completed"
    /\ ~payment_history[1].is_refund
    /\ payment_history[2].is_refund

-----------------------------------------------------------------------------
(* Properties of update_order_status and of the shipments *)

C16_ShipmentOnlyWhenSetToShipped ==
    [][Len(shipments') > Len(shipments) =>
          LET shipment == shipments'[Len(shipments')]
          IN /\ shipment.order_id \in DOMAIN orders'
             /\ orders'[shipment.order_id].status = "shipped"]_vars

-----------------------------------------------------------------------------
(* Properties of the last steps of create_order *)

\* the low stock alerts the step has printed
NewSupplierEmails ==
    SubSeq(supplier_emails', Len(supplier_emails) + 1, Len(supplier_emails'))

\* C17: at the end of a successful create_order the supplier of a line-item
\* product is notified for reorder exactly when the quantity_available of that
\* product after the sale is below 5.
C17_ReorderJudgedOnPostSaleStock ==
    [][(ret'.op = "create_order" /\ ret'.result = "order") =>
          LET items == orders'[ret'.order_id].items
          IN \A i \in 1..Len(items) :
                LET p == items[i].product_id
                IN (\E k \in 1..Len(NewSupplierEmails) :
                       /\ NewSupplierEmails[k].product_id = p
                       /\ NewSupplierEmails[k].supplier_id = products'[p].supplier_id)
                   <=> products'[p].quantity_available < LowStockThreshold]_vars

\* how a create_order call ends when a collaborator call of step 11 or 12 fails
CollaboratorFailures == {"order confirmation failed", "supplier notification failed"}

\* C18: a failure of the order confirmation or of the supplier-reorder
\* notification during create_order never aborts the order: the order is
\* persisted with the stock deducted, the order is in the customer's history
\* and create_order returns the order.
C18_CollaboratorFailureKeepsOrder ==
    [][(ret'.op = "create_order" /\ ret'.why \in CollaboratorFailures) =>
          LET o == ret'.order_id
          IN /\ o \in DOMAIN orders' \ DOMAIN orders
             /\ \E i \in 1..Len(inventory_logs') :
                   i > Len(inventory_logs) /\ inventory_logs'[i].reason = <<"sale">>
             /\ \E i \in 1..Len(customers'[orders'[o].customer_id].order_history) :
                   customers'[orders'[o].customer_id].order_history[i] = o
             /\ ret'.result = "order"]_vars

-----------------------------------------------------------------------------
(* Properties of the fields of a persisted order *)

\* the fields of order o that no operation writes are what they were
CreationFieldsKept(o) ==
    /\ o \in DOMAIN orders'
    /\ orders'[o].order_id = orders[o].order_id
    /\ orders'[o].customer_id = orders[o].customer_id
    /\ orders'[o].items = orders[o].items
    /\ orders'[o].created_at = orders[o].created_at
    /\ orders'[o].shipping_cost = orders[o].shipping_cost

\* C19 as stated: once an order is persisted, its id, customer_id, items,
\* created_at, total_price and shipping_cost never change under any
\* OrderService operation.
C19_OnlyStatusAndTrackingChange ==
    [][\A o \in DOMAIN orders :
          /\ CreationFieldsKept(o)
          /\ orders'[o].total_price = orders[o].total_price]_vars

\* C19, amended: once an order is persisted, its id, customer_id, items,
\* created_at and shipping_cost never change under any OrderService operation;
\* its total_price changes only by apply_additional_discount on that order
\* while it is PENDING, and never grows.
C19_TotalChangesOnlyByDiscount ==
    [][\A o \in DOMAIN orders :
          /\ CreationFieldsKept(o)
          /\ orders'[o].total_price # orders[o].total_price =>
                /\ ret'.op = "apply_additional_discount"
                /\ ret'.order_id = o
                /\ orders[o].status = "pending"
                /\ orders'[o].total_price < orders[o].total_price]_vars

\* an order that was discounted, then shipped: its total is below the amount
\* paid, it has a tracking number, and the rest is as it was created
C19_Witness ==
    \E o \in DOMAIN orders :
        /\ orders[o].status = "shipped"
        /\ orders[o].tracking_number # 0
        /\ orders[o].order_id = o
        /\ orders[o].created_at = Now
        /\ \E i \in 1..Len(payment_history) :
              /\ payment_history[i].order_id = o
              /\ payment_history[i].amount > orders[o].total_price

\* price * (1 - percent/100), truncated to the unit of the amounts
DiscountedBy(price, percent) == MulRate(price, (100 - percent) * 100)

\* C20: apply_additional_discount changes an order only when it exists and is
\* PENDING: it then sets total_price to total_price * (1 - percent/100), to
\* the unit of the amounts, and
\* leaves shipping_cost, items and status as they were; for a missing order
\* or an order in any other status it returns None and no order changes.
C20_DiscountOnlyOnPending ==
    [][ret'.op = "apply_additional_discount" =>
          LET o == ret'.order_id
          IN IF o \in DOMAIN orders /\ orders[o].status = "pending"
             THEN /\ ret'.result = "order"
                  /\ \E percent \in DiscountPercents :
                        orders'[o].total_price - DiscountedBy(orders[o].total_price, percent)
                            \in {0, 1}
                  /\ orders'[o].shipping_cost = orders[o].shipping_cost
                  /\ orders'[o].items = orders[o].items
                  /\ orders'[o].status = orders[o].status
                  /\ \A other \in DOMAIN orders \ {o} : orders'[other] = orders[other]
             ELSE /\ ret'.result = "None"
                  /\ orders' = orders]_vars

\* a discount was applied to a PENDING order: the total is half of what was
\* paid, or nothing
C20_Witness ==
    /\ ret.op = "apply_additional_discount"
    /\ ret.result = "order"
    /\ orders[ret.order_id].status = "pending"
    /\ \E i \in 1..Len(payment_history) :
          /\ payment_history[i].order_id = ret.order_id
          /\ orders[ret.order_id].total_price * 2 <= payment_history[i].amount

-----------------------------------------------------------------------------
(* Properties of the order store over several create_order calls *)

\* C21: order ids start at 1 and strictly increase: every persisted order has
\* an id from 1 up to the last id handed out and is stored under that id, and
\* a create_order call, successful or failed, never lowers the counter, stores
\* its order under the id the counter showed, moves the counter past that id
\* and leaves every order persisted before as it was.
C21_IdsStartAtOneAndIncrease ==
    [][ret'.op = "create_order" =>
          /\ next_id' >= next_id
          /\ \A o \in DOMAIN orders : o \in DOMAIN orders' /\ orders'[o] = orders[o]
          /\ \A o \in DOMAIN orders' \ DOMAIN orders : o = next_id /\ next_id' > o
          /\ \A o \in DOMAIN orders' :
                o >= 1 /\ o < next_id' /\ orders'[o].order_id = o]_vars

\* two orders are persisted, the second after a call that took an id and
\* stored no order
C21_Witness ==
    /\ DOMAIN orders = {1, 3}
    /\ next_id = 4
    /\ ret.op = "create_order"
    /\ ret.result = "order"
    /\ ret.order_id = 3

-----------------------------------------------------------------------------
(* Properties of the discount strategies *)

\* the amounts of the pricing call under study
Chain == discount_chain(calc.customer, calc.order_items, products, calc.promotion)

\* C22: for every tier, promotion of 0 to 100 percent, item count and loyalty
\* balance, each discount strategy returns an amount from 0 to the subtotal it
\* is applied to, so every intermediate subtotal of apply_all_discounts and
\* the subtotal_after_loyalty it returns are from 0 to the original subtotal.
C22_DiscountsWithinSubtotal ==
    calc.done =>
        /\ calc.promotion.present => calc.promotion.discount_percent \in 0..100
        /\ Chain.membership_discount >= 0
        /\ Chain.membership_discount <= Chain.subtotal
        /\ Chain.promo_discount >= 0
        /\ Chain.promo_discount <= Chain.subtotal_after_membership
        /\ Chain.bulk_discount >= 0
        /\ Chain.bulk_discount <= Chain.subtotal_after_promo
        /\ Chain.loyalty_discount >= 0
        /\ Chain.loyalty_discount <= Chain.subtotal_after_bulk
        /\ \A amount \in {Chain.subtotal_after_membership, Chain.subtotal_after_promo,
                          Chain.subtotal_after_bulk, Chain.final_price} :
              amount >= 0 /\ amount <= Chain.subtotal
        /\ calc.result.original_subtotal = Chain.subtotal
        /\ calc.result.subtotal_after_loyalty = Chain.final_price
        /\ calc.result.subtotal_after_loyalty >= 0
        /\ calc.result.subtotal_after_loyalty <= calc.result.original_subtotal

\* a promotion of 100 percent was applied: the whole subtotal after the
\* membership discount is taken off and nothing is left
C22_Witness ==
    /\ calc.done
    /\ calc.promotion.present
    /\ calc.promotion.discount_percent = 100
    /\ calc.customer.membership_tier = "gold"
    /\ calc.customer.loyalty_points = 5000
    /\ calc.result.original_subtotal > 0
    /\ calc.result.subtotal_after_loyalty = 0

\* C23: the loyalty discount is 0 for fewer than 100 points and otherwise the
\* smaller of 10% of the current subtotal and points * 0.01; the points
\* consumed are the whole number of discount * 100 and never exceed the
\* customer's balance.  2000 points on a subtotal of 100 give a discount of 10
\* and 1000 points used; 99 points give 0 and 0.
C23_LoyaltyDiscountCapped ==
    calc.done =>
        LET points == calc.customer.loyalty_points
            current == Chain.subtotal_after_bulk
            cent == Scale \div 100
            discount == Chain.subtotal_after_bulk - calc.result.subtotal_after_loyalty
            used == calc.result.loyalty_points_used
        IN /\ points < 100 => discount = 0 /\ used = 0
           /\ points >= 100 =>
                 discount = IF current \div 10 <= points * cent
                            THEN current \div 10 ELSE points * cent
           /\ used * cent <= discount
           /\ discount < (used + 1) * cent
           /\ used <= points
           /\ (points = 2000 /\ current = Dollars(100)) =>
                 discount = Dollars(10) /\ used = 1000
           /\ points = 99 => discount = 0 /\ used = 0

\* 2000 points on a subtotal of 100 with nothing else taken off
C23_Witness ==
    /\ calc.done
    /\ calc.customer.loyalty_points = 2000
    /\ calc.result.original_subtotal = Dollars(100)
    /\ calc.result.subtotal_after_loyalty = Dollars(90)
    /\ calc.result.loyalty_points_used = 1000

-----------------------------------------------------------------------------
(* Properties of calculate_shipping_cost *)

\* C24: STANDARD shipping is free exactly when the subtotal passed in is at
\* least 50 and otherwise costs 5 + 0.2 * weight; EXPRESS costs
\* 25 + 0.5 * weight, halved for GOLD customers only; OVERNIGHT costs
\* 50 + 1.0 * weight for every tier.
C24_ShippingCostByMethod ==
    quote.done =>
        LET weight == quote.total_weight
            tenth == Scale \div 10
        IN /\ quote.shipping_method = "standard" =>
                 /\ quote.cost = 0 <=> quote.subtotal >= 50 * Scale
                 /\ quote.subtotal < 50 * Scale =>
                       quote.cost = 5 * Scale + 2 * weight * tenth
           /\ (quote.shipping_method = "express" /\ quote.customer_tier # "gold") =>
                 quote.cost = 25 * Scale + 5 * weight * tenth
           /\ (quote.shipping_method = "express" /\ quote.customer_tier = "gold") =>
                 2 * quote.cost = 25 * Scale + 5 * weight * tenth
           /\ quote.shipping_method = "overnight" =>
                 quote.cost = 50 * Scale + weight * Scale

\* STANDARD shipping on a subtotal of exactly 50 was priced, and is free
C24_Witness ==
    /\ quote.done
    /\ quote.shipping_method = "standard"
    /\ quote.subtotal = Dollars(50)
    /\ quote.total_weight = 3
    /\ quote.cost = 0

-----------------------------------------------------------------------------
(* Properties of cancel_order and the payment ledger *)

\* C25: cancel_order cancels an order and refunds its payment: after a
\* cancel_order call that has set the order to CANCELLED the payment ledger
\* holds a refund for that order.
C25_CancelRefundsPayment ==
    [][(/\ ret'.op = "cancel_order"
        /\ ret'.order_id \in DOMAIN orders
        /\ orders[ret'.order_id].status = "pending"
        /\ orders'[ret'.order_id].status = "cancelled") =>
          \E i \in 1..Len(payment_history') :
              /\ payment_history'[i].order_id = ret'.order_id
              /\ payment_history'[i].is_refund]_vars

-----------------------------------------------------------------------------
(* Properties of create_order calls that run side by side *)

\* the quantities of the orders the callers created
RECURSIVE CreatedQuantity(_)
CreatedQuantity(cs) ==
    IF cs = {} THEN 0
    ELSE LET c == CHOOSE x \in cs : TRUE
         IN (IF in_flight[c].result = "order" THEN in_flight[c].order_items[1].quantity
             ELSE 0) + CreatedQuantity(cs \ {c})

\* C26: when two create_order calls for the same product interleave step by
\* step, both orders are created only if the stock covers both quantities,
\* and once both calls have ended the product's quantity_available is the
\* initial stock minus the quantities of the orders that were created.
C26_InterleavedOrdersNeverOversell ==
    (\A c \in Callers : in_flight[c].pc = "done") =>
        /\ (\A c \in Callers : in_flight[c].result = "order") =>
              in_flight[1].stock >= in_flight[1].order_items[1].quantity
                                       + in_flight[2].order_items[1].quantity
        /\ products[RaceProduct].quantity_available
              = in_flight[1].stock - CreatedQuantity(Callers)

-----------------------------------------------------------------------------
(* Properties of quantity_available *)

\* C27: in every state reached by create_order, cancel_order, restock_product
\* and update_order_status calls made one after the other, every product's
\* quantity_available is at least 0.
C27_StockNeverNegative ==
    \A p \in DOMAIN products : products[p].quantity_available >= 0

\* a restock that would take a quantity below 0 was refused, and an order has
\* sold a product out
C27_Witness ==
    /\ ret.op = "restock_product"
    /\ ret.result = "raised"
    /\ \E p \in DOMAIN products : products[p].quantity_available = 0
    /\ DOMAIN orders # {}

-----------------------------------------------------------------------------
(* Properties of the inventory restored for an order *)

RECURSIVE QuantityRestored(_, _, _, _)
\* the sum of the quantities of product p the inventory log shows as added
\* back for order o, from entry i on
QuantityRestored(logs, o, p, i) ==
    IF i > Len(logs) THEN 0
    ELSE (IF logs[i].reason = <<"order_cancelled_", o>> /\ logs[i].product_id = p
          THEN logs[i].quantity_change ELSE 0)
         + QuantityRestored(logs, o, p, i + 1)

\* C28: across any sequence of cancel_order and update_order_status calls the
\* inventory of an order is restored at most once: for every product, the
\* quantity added back on behalf of an order never exceeds the quantity of its
\* line items, which is the most the order took out.
C28_InventoryRestoredAtMostOnce ==
    \A o \in DOMAIN orders : \A p \in DOMAIN products :
        QuantityRestored(inventory_logs, o, p, 1)
           <= QuantityOrdered(orders[o].items, p, 1)

-----------------------------------------------------------------------------
(* Properties tying the payment ledger to the order store *)

\* the ledger entries that are COMPLETED payments of order o
PaymentsOf(o) ==
    {i \in 1..Len(payment_history) :
        /\ payment_history[i].order_id = o
        /\ ~payment_history[i].is_refund
        /\ payment_history[i].status = "completed"}

\* C29: the payment ledger and the order store agree: every persisted order
\* has exactly one COMPLETED payment transaction under its id, for the
\* total_price the order was created with (create_order and cancel_order leave
\* total_price as it was), and every COMPLETED payment transaction carries the
\* id of a persisted order.
C29_LedgerAgreesWithOrders ==
    /\ \A o \in DOMAIN orders :
          /\ Cardinality(PaymentsOf(o)) = 1
          /\ \A i \in PaymentsOf(o) : payment_history[i].amount = orders[o].total_price
    /\ \A i \in 1..Len(payment_history) :
          (~payment_history[i].is_refund /\ payment_history[i].status = "completed")
             => payment_history[i].order_id \in DOMAIN orders

-----------------------------------------------------------------------------
(* Properties of the customers' order histories *)

\* the positions of order o in the order_history of customer c
HistoryEntries(c, o) ==
    {i \in 1..Len(customers[c].order_history) : customers[c].order_history[i] = o}

\* C30: each persisted order's id appears exactly once in the order_history
\* of the order's customer and in no other customer's, and every id in any
\* order_history is the id of a persisted order.
C30_HistoryAgreesWithOrders ==
    /\ \A o \in DOMAIN orders : \A c \in DOMAIN customers :
          Cardinality(HistoryEntries(c, o))
             = IF c = orders[o].customer_id THEN 1 ELSE 0
    /\ \A c \in DOMAIN customers : \A i \in 1..Len(customers[c].order_history) :
          customers[c].order_history[i] \in DOMAIN orders

\* create_order calls stored an order for each of two customers, and a call
\* before the later one used up an id without storing an order
C30_Witness ==
    \E a, b \in DOMAIN orders :
        /\ orders[a].customer_id = 1
        /\ orders[b].customer_id = 3
        /\ customers[1].order_history = <<a>>
        /\ customers[3].order_history = <<b>>
        /\ \E o \in 1..(b - 1) : o \notin DOMAIN orders

====
